---- MODULE Spec2Model ----
(***************************************************************************)
(* Reverse-bidding marketplace: the auction lifecycle of one shipment bid   *)
(* as implemented by App.tsx (caller-facing operations), FirebaseService    *)
(* (record store access) and VendorDashboard.tsx (vendor-side guards).      *)
(*                                                                          *)
(* The stored bid lives in the Firebase Realtime Database.  Every browser   *)
(* (the admin's and each vendor's) holds its own copy `bids`, refreshed     *)
(* only when the onValue listener fires, so a client's copy may be older    *)
(* than the store.  Writes are blind partial merges (`update`).             *)
(***************************************************************************)
EXTENDS Integers, Sequences, FiniteSets, TLC

\* ------------------------------------------------------------------ bounds
MaxAmount == 2      \* offer / counter amounts range over 1..MaxAmount
MaxNow    == 1      \* the wall clock ranges over 0..MaxNow
MaxOffers == 3      \* stored offers plus placeBidOffer calls under way

\* ------------------------------------------------------- program constants
Admin     == "u-1"
Vendors   == {"v-1", "v-2"}
Clients   == Vendors \cup {Admin}
Amounts   == 1..MaxAmount
BidStatus == {"OPEN", "CLOSED", "NEGOTIATING", "FINALIZED", "ASSIGNED"}

\* optional fields of ShipmentBid that are not set
Undefined == 0          \* counterOffer?, finalAmount?
NoVendor  == "none"     \* winningVendorId?
NoDetails == [present |-> FALSE]     \* vehicleDetails?

\* VehicleDetails {vehicleNumber, driverName, driverPhone, expectedDispatch};
\* a text field is a sequence of characters
VehicleDetails(vehicleNumber, driverName, driverPhone, expectedDispatch) ==
  [vehicleNumber |-> vehicleNumber, driverName |-> driverName,
   driverPhone |-> driverPhone, expectedDispatch |-> expectedDispatch]

\* a form filled in completely
Details   == { VehicleDetails(<<"DL01AA1234">>, <<"driver">>, <<"98">>, <<"Monday">>) }

\* the bidding window of the bid (bidStartDate/Time, bidEndDate/Time)
bidStart == 0
bidEnd   == 0

VARIABLES
  store,        \* the bid record under bids/<id> in the database
  bids,         \* bids[c]: client c's React state `bids` (last snapshot delivered)
  reading,      \* reading[v]: placeBidOffer of v between `await get` and `await update`
  submitting,   \* submitting[v]: submitVehicleDetails of v between its two writes
  now,          \* wall clock
  lastCall,     \* the latest completed caller-facing operation and its outcome
  lane,         \* the `lane` string of the stored bid
  registry,     \* the lane records under lanes/ in the database
  probe,        \* argument and result of the pure function under study
  users         \* the user records under users/ in the database

vars == <<store, bids, reading, submitting, now, lastCall, lane, registry, probe, users>>

\* the state outside the bid's auction lifecycle
aux == <<lane, registry, probe, users>>

\* the state of the bid's auction lifecycle
bidVars == <<store, bids, reading, submitting, now, lastCall>>

Idle == [busy |-> FALSE]

\* BidOffer {vendorId, amount, timestamp}; vendorName is a function of vendorId
BidOffer(v, a, t) == [vendorId |-> v, amount |-> a, timestamp |-> t]

\* -------------------------------------------------------------- helpers
RECURSIVE InsertByAmount(_, _)
\* position of o in a list already ordered by amount, after every element
\* that does not compare greater (Array.prototype.sort is stable)
InsertByAmount(s, o) ==
  IF s = <<>> THEN <<o>>
  ELSE IF Head(s).amount - o.amount > 0 THEN <<o>> \o s
  ELSE <<Head(s)>> \o InsertByAmount(Tail(s), o)

\* the offers left in the order given
Unsorted(s) == s

RECURSIVE SortByAmount(_)
\* [...].sort((a, b) => a.amount - b.amount)
SortByAmount(s) ==
  IF s = <<>> THEN <<>>
  ELSE InsertByAmount(SortByAmount(SubSeq(s, 1, Len(s) - 1)), s[Len(s)])

\* ---------------------------------------------------------------- strings
\* A string is a sequence of characters; a word that no operation splits
\* ("Delhi") stands as one character.
Space  == " "
Tab    == "\t"
Hyphen == "-"

\* the characters String.prototype.trim strips and /\s/ matches
WhiteSpace == {Space, Tab}

\* A value that is not a string (null, undefined, a number, a boolean, an
\* object, an array) stands as one reserved character.
JsNull      == <<"null">>
JsUndefined == <<"undefined">>
NonText     == { JsNull, JsUndefined, <<"typeof number">>, <<"typeof boolean">>,
                 <<"typeof object">>, <<"Array.isArray">> }

\* isString: typeof value === 'string'
isString(value) == value \notin NonText

toUpperCaseChar(c) ==
  CASE c = "a"      -> "A"
    [] c = "b"      -> "B"
    [] c = "e"      -> "E"
    [] c = "i"      -> "I"
    [] c = "m"      -> "M"
    [] c = "n"      -> "N"
    [] c = "u"      -> "U"
    [] c = "Delhi"  -> "DELHI"
    [] c = "Mumbai" -> "MUMBAI"
    [] c = "Bangalore" -> "BANGALORE"
    [] c = "Chennai" -> "CHENNAI"
    [] OTHER        -> c

\* String.prototype.toUpperCase
toUpperCase(s) == [i \in DOMAIN s |-> toUpperCaseChar(s[i])]

RECURSIVE trimStart(_)
trimStart(s) == IF s # <<>> /\ Head(s) \in WhiteSpace THEN trimStart(Tail(s)) ELSE s

RECURSIVE trimEnd(_)
trimEnd(s) ==
  IF s # <<>> /\ s[Len(s)] \in WhiteSpace THEN trimEnd(SubSeq(s, 1, Len(s) - 1)) ELSE s

\* String.prototype.trim
trim(s) == trimEnd(trimStart(s))

\* a || b on strings: the empty string is falsy
OrElse(a, b) == IF a # <<>> THEN a ELSE b

\* MOCK_USERS: the lanes of each vendor, by lane name
VendorLanes(v) ==
  IF v = "v-1" THEN { <<"DELHI", "-", "MUMBAI">>, <<"DELHI", "-", "JAIPUR">> }
  ELSE { <<"DELHI", "-", "MUMBAI">>, <<"BLR", "-", "CHN">> }

\* INITIAL_BIDS bid-101: lane
SeededLane == <<"DELHI", "-", "MUMBAI">>

\* AdminDashboard.handleCreateSubmit: the bid data handed to onCreateBid
handleCreateSubmit(pickupCity, pickupLocation, deliveryCity, deliveryLocation) ==
  [origin       |-> OrElse(pickupCity, OrElse(pickupLocation, <<"Unknown">>)),
   destination  |-> OrElse(deliveryCity, OrElse(deliveryLocation, <<"Unknown">>)),
   lane         |-> toUpperCase(pickupCity) \o <<"-">> \o toUpperCase(deliveryCity),
   pickupCity   |-> pickupCity,
   deliveryCity |-> deliveryCity]

\* App.createBid: the bid data handed to createShipmentBid; the lane is
\* rebuilt from origin and destination
createBid(newBidData) ==
  [origin       |-> newBidData.origin,
   destination  |-> newBidData.destination,
   lane         |-> trim(toUpperCase(newBidData.origin) \o <<" ", "-", " ">>
                         \o toUpperCase(newBidData.destination)),
   pickupCity   |-> newBidData.pickupCity,
   deliveryCity |-> newBidData.deliveryCity]

\* no lane records, no function under study, no user records
NoLanes == <<>>
NoProbe == [f |-> "none"]
NoUsers == <<>>

\* a record as written by createShipmentBid: the database keeps no empty
\* array, so `offers: []` leaves no offers field; an empty sequence in
\* `store` stands for the absent field
CreatedBid ==
  [status |-> "OPEN", offers |-> <<>>, winningVendorId |-> NoVendor,
   counterOffer |-> Undefined, finalAmount |-> Undefined,
   vehicleDetails |-> NoDetails]

\* bids already in the database with offers (MOCK_BIDS bid-101)
SeededOffers ==
  { <<BidOffer("v-1", 1, 0)>>,
    <<BidOffer("v-1", 1, 0), BidOffer("v-2", 2, 0)>> }

\* snapshot.val().offers is undefined when the record has no offers field
OffersAbsent(b) == b.offers = <<>>

\* listenToShipmentBids: `offers: bid.offers || []`
listenToShipmentBids(b) ==
  [b EXCEPT !.offers = IF OffersAbsent(b) THEN <<>> ELSE b.offers]

\* What client c's handlers read of c's copy b of the bid.
\* Admin: handleCounterOffer reads offers.length and offers[0].vendorId.
\* Vendor: the dashboard renders the bidding input when b.status is OPEN, the
\* Accept/Reject buttons when b is NEGOTIATING with winningVendorId = c (and
\* respondToCounter then reads b.counterOffer), and the vehicle form when b is
\* FINALIZED with winningVendorId = c.
Copy(c, b) ==
  IF c = Admin
    THEN [L1 |-> IF listenToShipmentBids(b).offers = <<>> THEN NoVendor
                 ELSE listenToShipmentBids(b).offers[1].vendorId]
  ELSE IF b.status = "OPEN"
    THEN [section |-> "bidding", counterOffer |-> Undefined]
  ELSE IF b.status = "NEGOTIATING" /\ b.winningVendorId = c
    THEN [section |-> "negotiation", counterOffer |-> b.counterOffer]
  ELSE IF b.status = "FINALIZED" /\ b.winningVendorId = c
    THEN [section |-> "vehicle", counterOffer |-> Undefined]
  ELSE [section |-> "none", counterOffer |-> Undefined]

\* update(ref, values) of firebase/database validates its argument first and
\* throws when a value is undefined; otherwise it merges the given fields
ContainsUndefined(updates) ==
  \E f \in DOMAIN updates \cap {"counterOffer", "finalAmount"} : updates[f] = Undefined

Merge(b, updates) ==
  [f \in DOMAIN b |-> IF f \in DOMAIN updates THEN updates[f] ELSE b[f]]

\* FirebaseService.updateShipmentBid: {success: true} or, when update threw,
\* {success: false}
updateSucceeds(updates) == ~ContainsUndefined(updates)

updateShipmentBid(b, updates) ==
  IF updateSucceeds(updates) THEN Merge(b, updates) ELSE b

Call(op, ok) == [op |-> op, ok |-> ok]

\* A write that succeeded raises the writer's own onValue listener at once:
\* the writer's copy follows the record it has just written.
Echo(c, ok) ==
  bids' = IF ok THEN [bids EXCEPT ![c] = Copy(c, store')] ELSE bids

\* ------------------------------------------------------------------ Init
Init ==
  /\ store \in {CreatedBid} \cup {[CreatedBid EXCEPT !.offers = s] : s \in SeededOffers}
  /\ bids = [c \in Clients |-> Copy(c, store)]
  /\ reading = [v \in Vendors |-> Idle]
  /\ submitting = [v \in Vendors |-> Idle]
  /\ now = 0
  /\ users = NoUsers
  /\ lastCall = Call("none", TRUE)
  /\ lane = SeededLane
  /\ registry = NoLanes
  /\ probe = NoProbe

\* --------------------------------------------------------------- actions
\* onValue callback of useBids: client c receives the current record
Deliver(c) ==
  /\ bids' = [bids EXCEPT ![c] = Copy(c, store)]
  /\ UNCHANGED <<store, reading, submitting, now, lastCall>>
  /\ UNCHANGED aux

\* setInterval(() => setNow(new Date()), 1000)
Tick ==
  /\ now < MaxNow
  /\ now' = now + 1
  /\ UNCHANGED <<store, bids, reading, submitting, lastCall>>
  /\ UNCHANGED aux

\* handleBidding -> placeOffer -> placeBidOffer up to `await get(bidRef)`.
\* The Place Bid button is rendered for bids of the vendor's copy whose
\* status is OPEN; the amount is a positive integer.  placeBidOffer reads
\* the record; spreading an absent offers field throws, which is caught
\* and returned as {success: false}.
PlaceOffer(v, amount) ==
  /\ bids[v].section = "bidding"
  /\ ~reading[v].busy
  /\ Len(store.offers) + Cardinality({w \in Vendors : reading[w].busy}) < MaxOffers
  /\ IF OffersAbsent(store)
       THEN /\ lastCall' = Call("placeOffer", FALSE)
            /\ UNCHANGED reading
       ELSE /\ reading' = [reading EXCEPT ![v] =
                 [busy |-> TRUE, bid |-> [offers |-> store.offers],
                  offer |-> BidOffer(v, amount, now)]]
            /\ UNCHANGED lastCall
  /\ UNCHANGED <<store, bids, submitting, now>>
  /\ UNCHANGED aux

\* placeBidOffer from `await update(bidRef, {offers: updatedOffers})` on
PlaceOfferUpdate(v) ==
  /\ reading[v].busy
  /\ LET updatedOffers == SortByAmount(Append(reading[v].bid.offers, reading[v].offer))
     IN  store' = Merge(store, [offers |-> updatedOffers])
  /\ reading' = [reading EXCEPT ![v] = Idle]
  /\ lastCall' = Call("placeOffer", TRUE)
  /\ Echo(v, TRUE)
  /\ UNCHANGED <<submitting, now>>
  /\ UNCHANGED aux

\* handleCounterOffer(bidId, amount), run in the admin's browser
handleCounterOffer(amount) ==
  /\ bids[Admin].L1 # NoVendor
  /\ LET updates == [status |-> "NEGOTIATING", counterOffer |-> amount,
                     winningVendorId |-> bids[Admin].L1]
     IN  /\ store' = updateShipmentBid(store, updates)
         /\ lastCall' = Call("adminCounters", updateSucceeds(updates))
         /\ Echo(Admin, updateSucceeds(updates))
  /\ UNCHANGED <<reading, submitting, now>>
  /\ UNCHANGED aux

\* respondToCounter(bidId, accept), run in vendor v's browser; the Accept and
\* Reject buttons are rendered when the vendor's copy of the bid is
\* NEGOTIATING with winningVendorId = v
respondToCounter(v, accept) ==
  /\ bids[v].section = "negotiation"
  /\ LET updates == IF accept
                      THEN [status |-> "FINALIZED", finalAmount |-> bids[v].counterOffer]
                      ELSE [status |-> "OPEN", counterOffer |-> Undefined]
     IN  /\ store' = updateShipmentBid(store, updates)
         /\ lastCall' = Call(IF accept THEN "accept" ELSE "reject",
                             updateSucceeds(updates))
         /\ Echo(v, updateSucceeds(updates))
  /\ UNCHANGED <<reading, submitting, now>>
  /\ UNCHANGED aux

\* submitVehicleDetails(bidId, details) up to the first write,
\* FirebaseService.submitVehicleDetails; the form is rendered when the
\* vendor's copy of the bid is FINALIZED with winningVendorId = v
submitVehicleDetails(v, details) ==
  /\ bids[v].section = "vehicle"
  /\ ~submitting[v].busy
  /\ store' = Merge(store, [vehicleDetails |-> details])
  /\ submitting' = [submitting EXCEPT ![v] = [busy |-> TRUE, details |-> details]]
  /\ Echo(v, TRUE)
  /\ UNCHANGED <<reading, now, lastCall>>
  /\ UNCHANGED aux

\* submitVehicleDetails from updateBidStatus(bidId, ASSIGNED, {vehicleDetails}) on
submitVehicleDetailsAssign(v) ==
  /\ submitting[v].busy
  /\ LET updates == [status |-> "ASSIGNED", vehicleDetails |-> submitting[v].details]
     IN  /\ store' = updateShipmentBid(store, updates)
         /\ lastCall' = Call("submitVehicleDetails", updateSucceeds(updates))
         /\ Echo(v, updateSucceeds(updates))
  /\ submitting' = [submitting EXCEPT ![v] = Idle]
  /\ UNCHANGED <<reading, now>>
  /\ UNCHANGED aux

\* onCloseBid = (id) => updateBidStatus(id, CLOSED)
onCloseBid ==
  /\ LET updates == [status |-> "CLOSED"]
     IN  /\ store' = updateShipmentBid(store, updates)
         /\ lastCall' = Call("close", updateSucceeds(updates))
         /\ Echo(Admin, updateSucceeds(updates))
  /\ UNCHANGED <<reading, submitting, now>>
  /\ UNCHANGED aux

\* onFinalize = (id, vendorId, amount) =>
\*   updateBidStatus(id, FINALIZED, {winningVendorId: vendorId, finalAmount: amount})
onFinalize(vendorId, amount) ==
  /\ LET updates == [status |-> "FINALIZED", winningVendorId |-> vendorId,
                     finalAmount |-> amount]
     IN  /\ store' = updateShipmentBid(store, updates)
         /\ lastCall' = Call("finalize", updateSucceeds(updates))
         /\ Echo(Admin, updateSucceeds(updates))
  /\ UNCHANGED <<reading, submitting, now>>
  /\ UNCHANGED aux

Next ==
  \/ \E c \in Clients : Deliver(c)
  \/ Tick
  \/ \E v \in Vendors, a \in Amounts : PlaceOffer(v, a)
  \/ \E v \in Vendors : PlaceOfferUpdate(v)
  \/ \E a \in Amounts : handleCounterOffer(a)
  \/ \E v \in Vendors, accept \in BOOLEAN : respondToCounter(v, accept)
  \/ \E v \in Vendors, d \in Details : submitVehicleDetails(v, d)
  \/ \E v \in Vendors : submitVehicleDetailsAssign(v)
  \/ onCloseBid
  \/ \E v \in Vendors, a \in Amounts : onFinalize(v, a)

Spec == Init /\ [][Next]_vars

\* ================================================================ claims
\* the fields of the stored bid other than vehicleDetails
Negotiated(b) ==
  <<b.status, b.offers, b.winningVendorId, b.counterOffer, b.finalAmount>>

\* s without its i-th element
RemoveAt(s, i) == SubSeq(s, 1, i - 1) \o SubSeq(s, i + 1, Len(s))

\* C1: a placeOffer that reports success leaves its offer in the stored
\* offers and removes or alters no offer recorded before it: the stored
\* list after the call is the stored list before it plus the new offer,
\* whatever other placeOffer calls ran in between.
C1_OfferAppended ==
  [][\A v \in Vendors :
       PlaceOfferUpdate(v) =>
         \E i \in DOMAIN store'.offers :
           /\ store'.offers[i] = reading[v].offer
           /\ RemoveAt(store'.offers, i) = store.offers]_vars

\* C2: a placeOffer that reaches a bid whose stored status is not OPEN is
\* rejected as failed: it reports failure and no write of offers follows.
C2_NotOpenRejected ==
  [][\A v \in Vendors, a \in Amounts :
       (PlaceOffer(v, a) /\ store.status # "OPEN") =>
         /\ lastCall' = Call("placeOffer", FALSE)
         /\ ~reading'[v].busy]_vars

\* C3: no offer placed at a time outside [bidStart, bidEnd] is ever among
\* the stored offers.
C3_OffersInsideWindow ==
  \A i \in DOMAIN store.offers :
    /\ store.offers[i].timestamp >= bidStart
    /\ store.offers[i].timestamp <= bidEnd

\* C4: the stored status changes only along the six listed edges.
AllowedEdges ==
  { <<"OPEN", "NEGOTIATING">>, <<"NEGOTIATING", "FINALIZED">>,
    <<"FINALIZED", "ASSIGNED">>, <<"OPEN", "CLOSED">>,
    <<"NEGOTIATING", "CLOSED">>, <<"NEGOTIATING", "OPEN">> }

C4_OnlyListedEdges ==
  [][store'.status # store.status =>
       <<store.status, store'.status>> \in AllowedEdges]_vars

\* C5: once the stored status is ASSIGNED or CLOSED, no step changes the
\* bid's status, offers, winningVendorId, counterOffer or finalAmount.
C5_TerminalStates ==
  [][store.status \in {"ASSIGNED", "CLOSED"} =>
       Negotiated(store') = Negotiated(store)]_vars

\* C6: adminCounters changes the stored bid only if that bid is OPEN and
\* has an offer, and then it sets status NEGOTIATING, counterOffer to the
\* given amount and winningVendorId to the vendor of the stored first offer.
C6_CounterOnlyOnOpen ==
  [][\A a \in Amounts :
       (handleCounterOffer(a) /\ store' # store) =>
         /\ store.status = "OPEN"
         /\ store.offers # <<>>
         /\ store' = [store EXCEPT !.status = "NEGOTIATING",
                                   !.counterOffer = a,
                                   !.winningVendorId = store.offers[1].vendorId]]_vars

\* C7: an accept changes the stored bid only if the stored status is
\* NEGOTIATING and the responder is the stored winningVendorId.
C7_AcceptOnlyByWinner ==
  [][\A v \in Vendors :
       (respondToCounter(v, TRUE) /\ store' # store) =>
         /\ store.status = "NEGOTIATING"
         /\ store.winningVendorId = v
         /\ store'.status = "FINALIZED"]_vars

\* C8: a bid that is FINALIZED or ASSIGNED has a finalAmount, and a step
\* that makes the bid FINALIZED sets finalAmount to the counterOffer the
\* store holds at that step.
C8_FinalAmountIsCounter ==
  [][/\ store'.status \in {"FINALIZED", "ASSIGNED"} => store'.finalAmount # Undefined
     /\ (store'.status = "FINALIZED" /\ Negotiated(store') # Negotiated(store)) =>
          /\ store.counterOffer # Undefined
          /\ store'.finalAmount = store.counterOffer]_vars

\* C9: when the vendor named by the stored winningVendorId rejects the
\* counter of a NEGOTIATING bid, the stored bid is OPEN again and has no
\* counterOffer.
C9_RejectReopens ==
  [][\A v \in Vendors :
       ( /\ respondToCounter(v, FALSE)
         /\ lastCall' # lastCall
         /\ store.status = "NEGOTIATING"
         /\ store.winningVendorId = v ) =>
         /\ store'.status = "OPEN"
         /\ store'.counterOffer = Undefined]_vars

\* C10: submitVehicleDetails by a vendor other than the stored
\* winningVendorId, or on a bid whose stored status is not FINALIZED, stores
\* no vehicleDetails and leads to no write of ASSIGNED.
C10_SubmitOnlyByWinner ==
  [][\A v \in Vendors, d \in Details :
       ( /\ submitVehicleDetails(v, d)
         /\ (store.status # "FINALIZED" \/ store.winningVendorId # v) ) =>
         /\ store'.vehicleDetails = store.vehicleDetails
         /\ ~submitting'[v].busy]_vars

\* C11: in no stored state does the bid hold vehicleDetails while its
\* status is not ASSIGNED (submitVehicleDetails acts as one atomic step).
C11_DetailsOnlyWhenAssigned ==
  store.vehicleDetails # NoDetails => store.status = "ASSIGNED"

\* C23: placeOffer on a bid whose stored record has no offers field goes
\* through (it does not report failure), and the write that follows leaves
\* the bid with exactly that one offer.
C23_AbsentOffersTolerated ==
  [][\A v \in Vendors :
       /\ \A a \in Amounts :
            (PlaceOffer(v, a) /\ OffersAbsent(store)) =>
              /\ lastCall' # Call("placeOffer", FALSE)
              /\ reading'[v].busy
       /\ (PlaceOfferUpdate(v) /\ reading[v].bid.offers = <<>>) =>
            store'.offers = <<reading[v].offer>>]_vars

\* ----------------------------------------------- the end-to-end scenario
\* The scenario of one bid on the lane Delhi -> Mumbai, which vendor v-1
\* holds: v-1 places an offer of some amount, the admin counters with
\* CounterAmount, v-1 accepts and submits
\* the vehicle details.  Each step is the operation of the program, taken
\* when the step before it has completed.  The bid is either created by the
\* admin's form or is the one already in the database (INITIAL_BIDS).
CounterAmount == 1

\* matchingBids: the bid is listed for v when v's lanes include bid.lane and
\* v's copy of the bid is OPEN
matchingBids(v) == lane \in VendorLanes(v) /\ bids[v].section = "bidding"

InitE2E ==
  /\ \/ /\ store = CreatedBid
        /\ \E p \in {<<"Delhi">>, <<"DELHI">>}, d \in {<<"Mumbai">>, <<"MUMBAI">>} :
             lane = createBid(handleCreateSubmit(p, <<>>, d, <<>>)).lane
     \/ /\ store \in {[CreatedBid EXCEPT !.offers = o] : o \in SeededOffers}
        /\ lane = SeededLane
  /\ bids = [c \in Clients |-> Copy(c, store)]
  /\ reading = [v \in Vendors |-> Idle]
  /\ submitting = [v \in Vendors |-> Idle]
  /\ now = 0
  /\ users = NoUsers
  /\ lastCall = Call("none", TRUE)
  /\ registry = NoLanes
  /\ probe = NoProbe

E2EPlaceOffer ==
  /\ lastCall.op = "none"
  /\ matchingBids("v-1")
  /\ \E a \in Amounts : PlaceOffer("v-1", a)

E2EPlaceOfferUpdate == PlaceOfferUpdate("v-1")

E2ECounter ==
  /\ lastCall = Call("placeOffer", TRUE)
  /\ handleCounterOffer(CounterAmount)

E2EAccept ==
  /\ lastCall.op = "adminCounters"
  /\ respondToCounter("v-1", TRUE)

E2ESubmit ==
  /\ lastCall = Call("accept", TRUE)
  /\ \E d \in Details : submitVehicleDetails("v-1", d)

E2EAssign == submitVehicleDetailsAssign("v-1")

NextE2E ==
  \/ \E c \in Clients : Deliver(c)
  \/ Tick
  \/ E2EPlaceOffer
  \/ E2EPlaceOfferUpdate
  \/ E2ECounter
  \/ E2EAccept
  \/ E2ESubmit
  \/ E2EAssign

SpecE2E ==
  /\ InitE2E
  /\ [][NextE2E]_vars
  /\ \A c \in Clients : WF_vars(Deliver(c))
  /\ WF_vars(E2EPlaceOffer)
  /\ WF_vars(E2EPlaceOfferUpdate)
  /\ WF_vars(E2ECounter)
  /\ WF_vars(E2EAccept)
  /\ WF_vars(E2ESubmit)
  /\ WF_vars(E2EAssign)

\* C12: the end-to-end scenario runs to its end: the bid becomes ASSIGNED
\* with finalAmount equal to the admin's counter.
C12_ScenarioCompletes ==
  <>(store.status = "ASSIGNED" /\ store.finalAmount = CounterAmount)

\* ------------------------------------------------------------ ranking
\* placeOffer in its three steps: App.placeOffer stamps the offer with the
\* browser's clock, placeBidOffer reads the bid, placeBidOffer writes the
\* offers.  Only offers are placed; the bid stays OPEN.
NoRank == 0     \* myRank returns null

\* App.placeOffer up to the call of FirebaseService.placeBidOffer
StampOffer(v, amount) ==
  /\ bids[v].section = "bidding"
  /\ reading[v] = Idle
  /\ Len(store.offers) + Cardinality({w \in Vendors : reading[w] # Idle}) < MaxOffers
  /\ reading' = [reading EXCEPT ![v] = [busy |-> FALSE, offer |-> BidOffer(v, amount, now)]]
  /\ UNCHANGED <<store, bids, submitting, now, lastCall>>
  /\ UNCHANGED aux

\* placeBidOffer: `await get(bidRef)`
GetBid(v) ==
  /\ reading[v] # Idle
  /\ ~reading[v].busy
  /\ ~OffersAbsent(store)
  /\ reading' = [reading EXCEPT ![v] =
       [busy |-> TRUE, bid |-> [offers |-> store.offers], offer |-> reading[v].offer]]
  /\ UNCHANGED <<store, bids, submitting, now, lastCall>>
  /\ UNCHANGED aux

InitRank ==
  /\ Init
  /\ ~OffersAbsent(store)

NextRank ==
  \/ Tick
  \/ \E v \in Vendors, a \in Amounts : StampOffer(v, a)
  \/ \E v \in Vendors : GetBid(v)
  \/ \E v \in Vendors : PlaceOfferUpdate(v)

SpecRank == InitRank /\ [][NextRank]_vars

RECURSIVE findIndex(_, _)
\* sortedOffers.findIndex(o => o.vendorId === v), 1-based; 0 when none
findIndex(s, v) ==
  IF s = <<>> THEN 0
  ELSE IF Head(s).vendorId = v THEN 1
  ELSE IF findIndex(Tail(s), v) = 0 THEN 0
  ELSE 1 + findIndex(Tail(s), v)

\* myRank(bid) for currentUser.id = v
myRank(offers, v) ==
  IF offers = <<>> THEN NoRank
  ELSE IF findIndex(SortByAmount(offers), v) = 0 THEN NoRank
  ELSE findIndex(SortByAmount(offers), v)

\* o1 comes before o2 in the order ascending by amount, ties broken by
\* earliest timestamp
Before(o1, o2) ==
  \/ o1.amount < o2.amount
  \/ o1.amount = o2.amount /\ o1.timestamp < o2.timestamp

\* r is a position of offer m in a listing of offers by that order
PositionOf(offers, m, r) ==
  /\ Cardinality({i \in DOMAIN offers : Before(offers[i], m)}) < r
  /\ r <= Cardinality({i \in DOMAIN offers : ~Before(m, offers[i])})

\* C13: a vendor's rank is the position of the vendor's lowest offer among
\* all offers of the bid ordered ascending by amount, ties broken by
\* earliest timestamp; it is null exactly when the vendor has no offer.
C13_RankByAmountThenTime ==
  \A v \in Vendors :
    LET mine == {i \in DOMAIN store.offers : store.offers[i].vendorId = v}
    IN  /\ myRank(store.offers, v) = NoRank <=> mine = {}
        /\ mine # {} =>
             \E i \in mine :
               /\ \A j \in mine : ~Before(store.offers[j], store.offers[i])
               /\ PositionOf(store.offers, store.offers[i], myRank(store.offers, v))

\* ------------------------------------------------------- lane matching
\* .replace(/\s+/g, '')
removeSpaces(s) == SelectSeq(s, LAMBDA c : c \notin WhiteSpace)

\* normalizeCityName without the removal of the white space inside
normalizeCityNameKeepingInner(city) ==
  IF ~isString(city) THEN <<>>
  ELSE IF Len(city) = 0 THEN <<>>
  ELSE toUpperCase(trim(city))

\* normalizeCityName: '' for a value that is not a string and for the empty
\* string; otherwise trim, upper-case, remove internal spaces
normalizeCityName(city) ==
  IF ~isString(city) THEN <<>>
  ELSE IF Len(city) = 0 THEN <<>>
  ELSE removeSpaces(toUpperCase(trim(city)))

\* createLaneKey: "ORIGIN-DESTINATION", or '' when a city normalizes to ''
createLaneKey(origin, destination) ==
  IF normalizeCityName(origin) = <<>> \/ normalizeCityName(destination) = <<>>
    THEN <<>>
    ELSE normalizeCityName(origin) \o <<Hyphen>> \o normalizeCityName(destination)

\* shipmentMatchesLane(shipment, lane); isActive is "true", "false" or
\* "undefined" (a lane record without the field)
shipmentMatchesLane(shipment, l) ==
  /\ l.isActive = "true"
  /\ createLaneKey(shipment.pickupCity, shipment.deliveryCity) # <<>>
  /\ createLaneKey(shipment.pickupCity, shipment.deliveryCity)
       = createLaneKey(l.origin, l.destination)

\* An entry of a lanes array that is no object (null, a number, a string)
\* is a record with the one field typeof; a lane object has no such field.
NonObject == { [typeof |-> "null"], [typeof |-> "number"], [typeof |-> "string"] }
NoLane    == [typeof |-> "undefined"]

\* lane !== null && typeof lane === 'object'
isObject(entry) == "typeof" \notin DOMAIN entry

\* laneMap.get(laneId), after lanes.forEach(lane => laneMap.set(lane.id, lane))
\* over the objects with a truthy id: the last lane set under an id stays
laneMapGet(lanes, laneId) ==
  LET at == { i \in DOMAIN lanes :
                /\ isObject(lanes[i])
                /\ lanes[i].id \notin NonText \cup {<<>>}
                /\ lanes[i].id = laneId }
  IN  IF at = {} THEN NoLane
      ELSE lanes[CHOOSE i \in at : \A j \in at : j <= i]

\* filterShipmentsByVendorLanes([shipment], vendor, lanes) keeps the
\* shipment; vendorLanes is vendor.lanes, looked up in laneMap by id
filterShipmentsByVendorLanes(shipment, vendorLanes, lanes) ==
  /\ vendorLanes # {}
  /\ \E laneId \in vendorLanes :
       LET l == laneMapGet(lanes, laneId)
       IN  isObject(l) /\ shipmentMatchesLane(shipment, l)

\* lanes.find(l => l && l.id === laneId): the first lane with that id
find(lanes, laneId) ==
  LET at == { i \in DOMAIN lanes : isObject(lanes[i]) /\ lanes[i].id = laneId }
  IN  IF at = {} THEN NoLane
      ELSE lanes[CHOOSE i \in at : \A j \in at : i <= j]

\* the vendor filter with every lane taken for a lane of the vendor
getMatchingVendorsOfAnyLane(shipment, vendors, lanes) ==
  { k \in DOMAIN vendors :
      /\ vendors[k].lanes # {}
      /\ \E i \in DOMAIN lanes : shipmentMatchesLane(shipment, lanes[i]) }

\* the vendor filter without the guard on the vendor's lanes: a vendor is
\* returned when any lane matches
getMatchingVendorsUngated(shipment, vendors, lanes) ==
  { k \in DOMAIN vendors :
      \E i \in DOMAIN lanes : isObject(lanes[i]) /\ shipmentMatchesLane(shipment, lanes[i]) }

\* getMatchingVendors(shipment, vendors, lanes): the positions in vendors of
\* the vendors returned
getMatchingVendors(shipment, vendors, lanes) ==
  IF Len(vendors) = 0 \/ Len(lanes) = 0 THEN {}
  ELSE { k \in DOMAIN vendors :
           /\ vendors[k].lanes # {}
           /\ \E laneId \in vendors[k].lanes :
                LET l == find(lanes, laneId)
                IN  isObject(l) /\ shipmentMatchesLane(shipment, l) }

\* a lane record
Lane(id, name, origin, destination, isActive) ==
  [id |-> id, name |-> name, origin |-> origin, destination |-> destination,
   isActive |-> isActive]

\* INITIAL_LANES L-1 and L-3 as they are (no isActive field), and the same
\* lanes as records of the database with isActive: true
INITIAL_LANES ==
  << Lane(<<"L-1">>, <<"DELHI", "-", "MUMBAI">>, <<"Delhi">>, <<"Mumbai">>, "undefined"),
     Lane(<<"L-3">>, <<"BLR", "-", "CHN">>, <<"Bangalore">>, <<"Chennai">>, "undefined") >>

ActiveLanes ==
  [i \in DOMAIN INITIAL_LANES |-> [INITIAL_LANES[i] EXCEPT !.isActive = "true"]]

\* ------------------------------------------------ bids shown to a vendor
\* The vendor dashboard lists the bid (or not) at each render; meanwhile the
\* admin may close or finalize the bid.  probe.shown[v] is what v's
\* dashboard did at its latest render.
Unrendered == [v \in Vendors |-> "unrendered"]

InitShown ==
  /\ \/ /\ store = CreatedBid
        /\ \E p \in {<<"Delhi">>, <<"DELHI">>}, d \in {<<"Mumbai">>, <<"MUMBAI">>} :
             /\ lane = createBid(handleCreateSubmit(p, <<>>, d, <<>>)).lane
             /\ probe = [pickupCity |-> p, deliveryCity |-> d, shown |-> Unrendered]
     \/ /\ store \in {[CreatedBid EXCEPT !.offers = o] : o \in SeededOffers}
        /\ lane = SeededLane
        /\ probe = [pickupCity |-> <<"Delhi">>, deliveryCity |-> <<"Mumbai">>,
                    shown |-> Unrendered]
  /\ registry \in {INITIAL_LANES, ActiveLanes}
  /\ bids = [c \in Clients |-> Copy(c, store)]
  /\ reading = [v \in Vendors |-> Idle]
  /\ submitting = [v \in Vendors |-> Idle]
  /\ now = 0
  /\ users = NoUsers
  /\ lastCall = Call("none", TRUE)

\* VendorDashboard render: the list of matchingBids
RenderVendor(v) ==
  /\ probe' = [probe EXCEPT !.shown[v] = IF matchingBids(v) THEN "listed" ELSE "hidden"]
  /\ UNCHANGED bidVars
  /\ UNCHANGED <<lane, registry, users>>

NextShown ==
  \/ \E v \in Vendors : RenderVendor(v)
  \/ \E c \in Clients : Deliver(c)
  \/ onCloseBid
  \/ \E v \in Vendors, a \in Amounts : onFinalize(v, a)

SpecShown == InitShown /\ [][NextShown]_vars

\* C14: a vendor's dashboard lists the bid exactly when the bid matches, by
\* shipmentMatchesLane on pickupCity/deliveryCity, an active lane of the
\* vendor's lane set, i.e. when filterShipmentsByVendorLanes keeps it.
C14_ShownIffLaneMatches ==
  [][\A v \in Vendors :
       RenderVendor(v) =>
         (probe'.shown[v] = "listed"
            <=> filterShipmentsByVendorLanes(probe, VendorLanes(v), registry))]_vars

\* ------------------------------------------- the vendor's view of a bid
\* The vendor dashboard with the auction timer (the VendorDashboard of
\* AdminDashboard.tsx), rendered from the record b last delivered, for
\* currentUser.id = v at clock t.
isAuctionEnded(t) == t >= bidEnd

isVendorL1(b, v) == myRank(b.offers, v) = 1

getVendorBidStatus(b, v, t) ==
  LET auctionEnded   == isAuctionEnded(t) \/ b.status = "CLOSED"
      isWinner       == b.winningVendorId = v \/ (auctionEnded /\ isVendorL1(b, v))
      hasParticipated == \E i \in DOMAIN b.offers : b.offers[i].vendorId = v
  IN  IF isWinner THEN "won"
      ELSE IF auctionEnded /\ hasParticipated THEN "lost"
      ELSE IF ~auctionEnded /\ b.status = "OPEN" THEN "active"
      ELSE "other"

\* getStatusDisplay of that dashboard: the label
getStatusDisplayTimed(b, v, t) ==
  LET winner       == b.winningVendorId = v
      auctionEnded == isAuctionEnded(t) \/ b.status = "CLOSED"
      isL1Winner   == auctionEnded /\ isVendorL1(b, v)
  IN  IF (b.status = "FINALIZED" /\ winner) \/ isL1Winner THEN "WINNER"
      ELSE IF b.status = "FINALIZED" THEN "LOST"
      ELSE IF b.status = "NEGOTIATING" /\ winner THEN "NEGOTIATION"
      ELSE IF auctionEnded /\ b.status = "OPEN" THEN "AUCTION ENDED"
      ELSE IF b.status = "OPEN" THEN "ACTIVE"
      ELSE IF b.status = "CLOSED" THEN "AUCTION ENDED"
      ELSE b.status

\* bid.vehicleDetailsSubmitted is written by no operation
isWinnerNeedingVehicleDetails(b, v, t) ==
  LET auctionEnded == isAuctionEnded(t) \/ b.status \in {"FINALIZED", "ASSIGNED", "CLOSED"}
      isWinner     == b.winningVendorId = v \/ isVendorL1(b, v)
  IN  auctionEnded /\ isWinner

\* the vendor dashboard App imports (VendorDashboard.tsx): the label
getStatusDisplay(b, v) ==
  IF b.status = "FINALIZED"
    THEN IF b.winningVendorId = v THEN "WINNER" ELSE "LOST"
  ELSE IF b.status = "NEGOTIATING" /\ b.winningVendorId = v THEN "NEGOTIATION"
  ELSE IF b.status = "OPEN" THEN "ACTIVE"
  ELSE IF b.status = "CLOSED" THEN "AUCTION ENDED"
  ELSE IF b.status = "NEGOTIATING" THEN "AWAITING"
  ELSE b.status

\* AdminDashboard.getBidLifecycleStatus
getBidLifecycleStatus(b, t) ==
  IF b.status \in {"FINALIZED", "ASSIGNED"} THEN "Completed"
  ELSE IF t < bidStart THEN "Not Started Yet"
  ELSE IF t >= bidEnd \/ b.status = "CLOSED" THEN "Completed"
  ELSE "In Process"

\* probe: the latest render, by whom, and what it showed
NotRendered == [by |-> "none", report |-> "none", label |-> "none", form |-> FALSE]

InitView ==
  /\ store \in {CreatedBid} \cup {[CreatedBid EXCEPT !.offers = o] : o \in SeededOffers}
  /\ bids = [c \in Clients |-> Copy(c, store)]
  /\ reading = [v \in Vendors |-> Idle]
  /\ submitting = [v \in Vendors |-> Idle]
  /\ now = 0
  /\ users = NoUsers
  /\ lastCall = Call("none", TRUE)
  /\ lane = SeededLane
  /\ registry = NoLanes
  /\ probe = NotRendered

\* a render of v's timer dashboard, with the record of the store just
\* delivered: filter count, status label, vehicle form of the card
RenderTimed(v) ==
  /\ probe' =
       [by     |-> v,
        report |-> getVendorBidStatus(store, v, now),
        label  |-> getStatusDisplayTimed(store, v, now),
        form   |-> isWinnerNeedingVehicleDetails(store, v, now)]
  /\ UNCHANGED bidVars
  /\ UNCHANGED <<lane, registry, users>>

\* a render of v's dashboard of VendorDashboard.tsx: status label; the card
\* with the bidding input is listed when the bid is OPEN
RenderVendorCard(v) ==
  /\ probe' =
       [by     |-> v,
        report |-> IF store.status = "OPEN" THEN "listed" ELSE "hidden",
        label  |-> getStatusDisplay(store, v),
        form   |-> store.status = "FINALIZED" /\ store.winningVendorId = v]
  /\ UNCHANGED bidVars
  /\ UNCHANGED <<lane, registry, users>>

\* a render of the admin dashboard: lifecycle badge of the bid
RenderAdmin ==
  /\ probe' =
       [by |-> Admin, report |-> "listed",
        label |-> getBidLifecycleStatus(store, now), form |-> FALSE]
  /\ UNCHANGED bidVars
  /\ UNCHANGED <<lane, registry, users>>

\* handleSubmitVehicleDetails of the card's form -> App.submitVehicleDetails,
\* first write
SubmitFromCard(v, details) ==
  /\ isWinnerNeedingVehicleDetails(store, v, now)
  /\ ~submitting[v].busy
  /\ store' = Merge(store, [vehicleDetails |-> details])
  /\ submitting' = [submitting EXCEPT ![v] = [busy |-> TRUE, details |-> details]]
  /\ Echo(v, TRUE)
  /\ UNCHANGED <<reading, now, lastCall>>
  /\ UNCHANGED aux

NextView ==
  \/ Tick
  \/ \E v \in Vendors : RenderTimed(v)
  \/ \E v \in Vendors : RenderVendorCard(v)
  \/ RenderAdmin
  \/ \E v \in Vendors, d \in Details : SubmitFromCard(v, d)
  \/ \E v \in Vendors : submitVehicleDetailsAssign(v)
  \/ \E a \in Amounts : handleCounterOffer(a)
  \/ onCloseBid
  \/ \E v \in Vendors, a \in Amounts : onFinalize(v, a)

SpecView == InitView /\ [][NextView]_vars

\* C15: a vendor is reported as the winner of the bid, and is offered the
\* vehicle-details form, only if winningVendorId is that vendor and the
\* status is FINALIZED or ASSIGNED; holding rank 1 when the time has run
\* out is not enough, neither to be shown as winner nor to submit.
C15_WinnerOnlyByExplicitAction ==
  [][\A v \in Vendors :
       LET explicit == /\ store.winningVendorId = v
                       /\ store.status \in {"FINALIZED", "ASSIGNED"}
       IN  /\ (RenderTimed(v) \/ RenderVendorCard(v)) =>
                ((probe'.report = "won" \/ probe'.label = "WINNER" \/ probe'.form)
                   => explicit)
           /\ (\E d \in Details : SubmitFromCard(v, d)) => explicit]_vars

\* C16: while the stored bid is OPEN and its end time has passed, no render
\* for the admin or for a vendor reports the bid as active or in process,
\* and no vendor's dashboard lists it as open for bidding.
C16_ExpiredNeverShownActive ==
  [][(store.status = "OPEN" /\ now > bidEnd) =>
       /\ RenderAdmin => probe'.label # "In Process"
       /\ \A v \in Vendors :
            (RenderTimed(v) \/ RenderVendorCard(v)) =>
              /\ probe'.label # "ACTIVE"
              /\ probe'.report \notin {"active", "listed"}]_vars

\* ------------------------------------------------------- lane registry
\* The lane records of the database and FirebaseService's lane operations.
MaxLanes == 2     \* lane records ever created

\* city names an admin may type, in several cases and spacings
LaneCities == { <<>>, <<"Delhi">>, <<"DELHI">>, <<" ", "Delhi">>, <<"Mumbai">> }

InitLanes ==
  /\ registry = NoLanes
  /\ store = CreatedBid
  /\ bids = [c \in Clients |-> Copy(c, store)]
  /\ reading = [v \in Vendors |-> Idle]
  /\ submitting = [v \in Vendors |-> Idle]
  /\ now = 0
  /\ users = NoUsers
  /\ lastCall = Call("none", TRUE)
  /\ lane = SeededLane
  /\ probe = NoProbe

\* FirebaseService.createLane(laneData): push, then set; laneData is stored
\* as given, under a fresh id (the name, read by no lane operation, is left
\* empty)
createLane(origin, destination) ==
  /\ Len(registry) < MaxLanes
  /\ registry' = Append(registry,
       Lane(<<"L", Len(registry) + 1>>, <<>>, origin, destination, "true"))
  /\ UNCHANGED bidVars
  /\ UNCHANGED <<lane, probe, users>>

\* FirebaseService.updateLane(laneId, updates): update merges the fields
updateLane(i, updates) ==
  /\ i \in DOMAIN registry
  /\ registry' = [registry EXCEPT ![i] = Merge(registry[i], updates)]
  /\ UNCHANGED bidVars
  /\ UNCHANGED <<lane, probe, users>>

\* FirebaseService.deleteLane(laneId): soft delete.  update() writes the
\* isActive field under lanes/<laneId> whether or not a record is there: for
\* a key that holds no lane (the first free key stands for it) the database
\* then holds a record with that field and no id, name, origin, destination.
deleteLane(i) ==
  /\ i \in 1..(Len(registry) + 1)
  /\ i \in DOMAIN registry \/ Len(registry) < MaxLanes
  /\ registry' =
       IF i \in DOMAIN registry
         THEN [registry EXCEPT ![i] = Merge(registry[i], [isActive |-> "false"])]
         ELSE Append(registry,
                Lane(JsUndefined, JsUndefined, JsUndefined, JsUndefined, "false"))
  /\ UNCHANGED bidVars
  /\ UNCHANGED <<lane, probe, users>>

NextLanes ==
  \/ \E o \in LaneCities, d \in LaneCities : createLane(o, d)
  \/ \E i \in 1..MaxLanes, o \in LaneCities, d \in LaneCities :
       updateLane(i, [origin |-> o, destination |-> d])
  \/ \E i \in 1..MaxLanes : updateLane(i, [isActive |-> "true"])
  \/ \E i \in 1..MaxLanes : deleteLane(i)

SpecLanes == InitLanes /\ [][NextLanes]_vars

\* C17: no two active lanes of the registry have the same normalized
\* (origin, destination) pair.
C17_ActiveLanesUnique ==
  \A i \in DOMAIN registry, j \in DOMAIN registry :
    ( /\ i # j
      /\ registry[i].isActive = "true"
      /\ registry[j].isActive = "true" ) =>
      <<normalizeCityName(registry[i].origin), normalizeCityName(registry[i].destination)>>
        # <<normalizeCityName(registry[j].origin), normalizeCityName(registry[j].destination)>>

\* C18: every lane of the registry has a non-empty normalized origin and
\* destination, and the two differ.
C18_LaneEndsValid ==
  \A i \in DOMAIN registry :
    /\ normalizeCityName(registry[i].origin) # <<>>
    /\ normalizeCityName(registry[i].destination) # <<>>
    /\ normalizeCityName(registry[i].origin) # normalizeCityName(registry[i].destination)

\* --------------------------------------- shipmentMatchesLane on any text
MaxCityLen == 2     \* longest city name, in characters
MatchChars == {"a", "A", Space, Hyphen}
CityNames  == UNION {[1..k -> MatchChars] : k \in 0..MaxCityLen}

InitMatch ==
  /\ probe \in [shipment : [pickupCity : CityNames, deliveryCity : CityNames],
                lane     : {Lane(<<"L-1">>, <<>>, o, d, a) :
                              o \in CityNames, d \in CityNames,
                              a \in {"true", "false", "undefined"}},
                result   : {"none"}]
  /\ registry = NoLanes
  /\ store = CreatedBid
  /\ bids = [c \in Clients |-> Copy(c, store)]
  /\ reading = [v \in Vendors |-> Idle]
  /\ submitting = [v \in Vendors |-> Idle]
  /\ now = 0
  /\ users = NoUsers
  /\ lastCall = Call("none", TRUE)
  /\ lane = SeededLane

\* a call of shipmentMatchesLane(shipment, lane)
Match ==
  /\ probe.result = "none"
  /\ probe' = [probe EXCEPT !.result =
       IF shipmentMatchesLane(probe.shipment, probe.lane) THEN "match" ELSE "no match"]
  /\ UNCHANGED bidVars
  /\ UNCHANGED <<lane, registry, users>>

NextMatch == Match

SpecMatch == InitMatch /\ [][NextMatch]_vars

\* C19: shipmentMatchesLane(shipment, lane) is true iff the lane is active,
\* the normalized pickup city equals the normalized lane origin, the
\* normalized delivery city equals the normalized lane destination, and
\* both normalized shipment cities are non-empty.
C19_MatchIffComponentsEqual ==
  probe.result # "none" =>
    ( probe.result = "match" <=>
        /\ probe.lane.isActive = "true"
        /\ normalizeCityName(probe.shipment.pickupCity) = normalizeCityName(probe.lane.origin)
        /\ normalizeCityName(probe.shipment.deliveryCity) = normalizeCityName(probe.lane.destination)
        /\ normalizeCityName(probe.shipment.pickupCity) # <<>>
        /\ normalizeCityName(probe.shipment.deliveryCity) # <<>> )

\* C20: a shipment X -> Y does not match the lane Y -> X when the normalized
\* X and Y differ, and a vendor whose only lane is that lane is not eligible
\* for the shipment.
C20_Directional ==
  ( /\ probe.result # "none"
    /\ probe.lane.origin = probe.shipment.deliveryCity
    /\ probe.lane.destination = probe.shipment.pickupCity
    /\ normalizeCityName(probe.shipment.pickupCity)
         # normalizeCityName(probe.shipment.deliveryCity) ) =>
    /\ probe.result = "no match"
    /\ ~filterShipmentsByVendorLanes(probe.shipment, {probe.lane.id}, <<probe.lane>>)

\* ------------------------------------- lanes deactivated during an auction
\* The lane records are in the database with isActive: true; the admin may
\* deactivate a lane while vendors look at the bid and place offers on it.
InitDeact ==
  /\ InitShown
  /\ registry = ActiveLanes

\* the card of a listed bid: Place Bid -> handleBidding -> placeOffer
ListedPlaceOffer(v, amount) ==
  /\ matchingBids(v)
  /\ PlaceOffer(v, amount)

NextDeact ==
  \/ \E v \in Vendors : RenderVendor(v)
  \/ \E c \in Clients : Deliver(c)
  \/ \E i \in 1..MaxLanes : deleteLane(i)
  \/ \E v \in Vendors, a \in Amounts : ListedPlaceOffer(v, a)
  \/ \E v \in Vendors : PlaceOfferUpdate(v)
  \/ onCloseBid

SpecDeact == InitDeact /\ [][NextDeact]_vars

\* the lanes of v's lane set whose cities are those of the shipment, active
\* or not
MatchedThrough(v) ==
  { i \in DOMAIN registry :
      /\ registry[i].name \in VendorLanes(v) \/ registry[i].id \in VendorLanes(v)
      /\ createLaneKey(probe.pickupCity, probe.deliveryCity) # <<>>
      /\ createLaneKey(probe.pickupCity, probe.deliveryCity)
           = createLaneKey(registry[i].origin, registry[i].destination) }

\* C21: once every lane through which a vendor's lane set matched the
\* shipment has been deactivated, the vendor is no longer eligible for the
\* shipment and the vendor's dashboard no longer lists it.
C21_DeactivatedLaneHidesBid ==
  [][\A v \in Vendors :
       ( /\ RenderVendor(v)
         /\ MatchedThrough(v) # {}
         /\ \A i \in MatchedThrough(v) : registry[i].isActive = "false" ) =>
         /\ \A i \in MatchedThrough(v) : ~shipmentMatchesLane(probe, registry[i])
         /\ probe'.shown[v] = "hidden"]_vars

\* v is eligible for the shipment: some active lane of v's lane set matches it
Eligible(v) == \E i \in MatchedThrough(v) : shipmentMatchesLane(probe, registry[i])

\* C24: a placeOffer by a vendor who is not eligible for the bid at that
\* time is rejected and records nothing, so every recorded offer was placed
\* by a vendor eligible at submission time.
C24_OffersOnlyFromEligible ==
  [][\A v \in Vendors, a \in Amounts :
       (PlaceOffer(v, a) /\ ~Eligible(v)) =>
         /\ ~reading'[v].busy
         /\ lastCall' = Call("placeOffer", FALSE)]_vars

\* C22: deleteLane of a lane that is already inactive, or of an id that
\* names no lane, leaves the lane records as they were: no field changes
\* and no record is created.
C22_DeactivateNoOp ==
  [][\A i \in 1..MaxLanes :
       ( /\ deleteLane(i)
         /\ i \notin DOMAIN registry \/ registry[i].isActive = "false" ) =>
         registry' = registry]_vars

\* ------------------------------------------------- the Place Bid button
\* What a vendor types into the amount input of a bid's card, and the two
\* vendor dashboards' handlers of the Place Bid button.
Digits == {"0", "1", "2"}

DigitValue(c) == CASE c = "0" -> 0 [] c = "1" -> 1 [] c = "2" -> 2

AmountTexts ==
  { <<>>, <<"0">>, <<"1">>, <<"2">>, <<Hyphen, "1">>, <<"a">>, <<"1", "a">>,
    <<Space, "2">> }

NaN == [isNaN |-> TRUE, value |-> 0]

RECURSIVE leadingDigits(_)
\* the longest prefix of s made of digits
leadingDigits(s) ==
  IF s # <<>> /\ Head(s) \in Digits
    THEN <<Head(s)>> \o leadingDigits(Tail(s))
    ELSE <<>>

RECURSIVE digitsValue(_)
digitsValue(d) ==
  IF d = <<>> THEN 0
  ELSE 10 * digitsValue(SubSeq(d, 1, Len(d) - 1)) + DigitValue(d[Len(d)])

\* parseInt(s, 10): leading white space is skipped, a sign is read, then the
\* digits up to the first other character; NaN when there is no digit
parseInt(s) ==
  LET t        == trimStart(s)
      negative == t # <<>> /\ Head(t) = Hyphen
      unsigned == IF t # <<>> /\ Head(t) \in {Hyphen, "+"} THEN Tail(t) ELSE t
      d        == leadingDigits(unsigned)
  IN  IF d = <<>> THEN NaN
      ELSE [isNaN |-> FALSE,
            value |-> IF negative THEN 0 - digitsValue(d) ELSE digitsValue(d)]

\* alert(...) and return: the handler calls no operation
Alert ==
  /\ lastCall' = Call("alert", FALSE)
  /\ UNCHANGED <<store, bids, reading, submitting, now>>
  /\ UNCHANGED aux

\* VendorDashboard.tsx handleBidding(bidId), amountText in the input
handleBidding(v, amountText) ==
  LET amountStr == trim(amountText)
      amount    == parseInt(amountStr)
  IN  /\ matchingBids(v)
      /\ IF amountStr = <<>> THEN Alert
         ELSE IF amount.isNaN \/ amount.value <= 0 THEN Alert
         ELSE PlaceOffer(v, amount.value)

\* handleBidding(bidId) of the dashboard with the auction timer
\* (AdminDashboard.tsx): `!amount || isNaN(amount)` rejects 0 and NaN
handleBiddingTimed(v, amountText) ==
  LET amount == parseInt(amountText)
  IN  /\ bids[v].section = "bidding"
      /\ IF amount.isNaN \/ amount.value = 0 THEN Alert
         ELSE PlaceOffer(v, amount.value)

InitBidding == Init

NextBidding ==
  \/ \E v \in Vendors, t \in AmountTexts : handleBidding(v, t)
  \/ \E v \in Vendors, t \in AmountTexts : handleBiddingTimed(v, t)
  \/ \E v \in Vendors : PlaceOfferUpdate(v)
  \/ \E c \in Clients : Deliver(c)
  \/ onCloseBid

SpecBidding == InitBidding /\ [][NextBidding]_vars

\* the amount typed is a positive number
PositiveAmount(amountText) ==
  ~parseInt(amountText).isNaN /\ parseInt(amountText).value > 0

\* C25: every stored offer has a positive amount, and pressing Place Bid
\* with a zero, negative or non-numeric amount records nothing.
C25_AmountsPositive ==
  [][/\ \A i \in DOMAIN store'.offers : store'.offers[i].amount > 0
     /\ \A v \in Vendors, t \in AmountTexts :
          ( /\ handleBidding(v, t) \/ handleBiddingTimed(v, t)
            /\ ~PositiveAmount(t) ) =>
            /\ ~reading'[v].busy
            /\ store' = store]_vars

\* ------------------------------------------- the vehicle details form
\* What the winner may leave in the fields of the form, and the two vendor
\* dashboards' handlers of its Submit button.
FieldTexts == { <<>>, <<Space>>, <<"x">> }

\* the forms with at most one field left empty or blank
FormDetails ==
  { f \in { VehicleDetails(n, d, p, e) :
              n \in FieldTexts, d \in FieldTexts, p \in FieldTexts, e \in FieldTexts } :
      Cardinality({ k \in DOMAIN f : f[k] # <<"x">> }) <= 1 }

\* `!field?.trim()`: the field is empty or white space
Blank(field) == trim(field) = <<>>

\* VendorDashboard.tsx, Submit Vehicle Details onClick; the form is rendered
\* when the vendor's copy of the bid is FINALIZED with winningVendorId = v
SubmitVehicleClick(v, details) ==
  /\ bids[v].section = "vehicle"
  /\ IF \/ Blank(details.vehicleNumber)
        \/ Blank(details.driverName)
        \/ Blank(details.driverPhone)
        \/ Blank(details.expectedDispatch)
       THEN Alert
       ELSE submitVehicleDetails(v, details)

\* the handler without its checks of the fields
handleSubmitVehicleDetailsUnchecked(v, details) ==
  /\ isWinnerNeedingVehicleDetails(store, v, now)
  /\ SubmitFromCard(v, details)

\* handleSubmitVehicleDetails(bidId) of the dashboard with the auction timer
handleSubmitVehicleDetails(v, details) ==
  /\ isWinnerNeedingVehicleDetails(store, v, now)
  /\ IF \/ Blank(details.vehicleNumber)
        \/ Blank(details.driverName)
        \/ Blank(details.driverPhone)
       THEN Alert
       ELSE SubmitFromCard(v, details)

InitVehicle == Init

NextVehicle ==
  \/ \E v \in Vendors, d \in FormDetails : SubmitVehicleClick(v, d)
  \/ \E v \in Vendors, d \in FormDetails : handleSubmitVehicleDetails(v, d)
  \/ \E v \in Vendors : submitVehicleDetailsAssign(v)
  \/ \E c \in Clients : Deliver(c)
  \/ Tick
  \/ onCloseBid
  \/ \E v \in Vendors, a \in Amounts : onFinalize(v, a)

SpecVehicle == InitVehicle /\ [][NextVehicle]_vars

\* vehicle number, driver name and driver contact are there and not empty
Complete(details) ==
  /\ details # NoDetails
  /\ details.vehicleNumber # <<>>
  /\ details.driverName # <<>>
  /\ details.driverPhone # <<>>

\* C26: whenever the stored status is ASSIGNED the stored vehicleDetails
\* have a non-empty vehicle number, driver name and driver contact, and a
\* submission that misses one of them is rejected: no step writes
\* vehicleDetails that miss one, and none starts an assignment with them, so
\* the bid stays as it was (FINALIZED).
C26_AssignedHasDetails ==
  [][/\ store'.status = "ASSIGNED" => Complete(store'.vehicleDetails)
     /\ store'.vehicleDetails # store.vehicleDetails => Complete(store'.vehicleDetails)
     /\ \A v \in Vendors :
          (submitting'[v].busy /\ ~submitting[v].busy) =>
            Complete(submitting'[v].details)]_vars

C26_Assigned ==
  /\ store.status = "ASSIGNED"
  /\ lastCall = Call("submitVehicleDetails", TRUE)
  /\ store.vehicleDetails.expectedDispatch = <<>>

\* ------------------------------------------- notifications of a new bid
\* The admin creates bids from the form while lanes are deactivated;
\* probe.notified holds the users createBid has sent 'New Bid Opportunity'.
FormCities ==
  { <<"Delhi">>, <<"DELHI">>, <<"Mumbai">>, <<"MUMBAI">>, <<"Bangalore">>, <<"Chennai">> }

InitNotify ==
  /\ store \in {[CreatedBid EXCEPT !.offers = o] : o \in SeededOffers}
  /\ lane = SeededLane
  /\ probe = [pickupCity |-> <<"Delhi">>, deliveryCity |-> <<"Mumbai">>, notified |-> {}]
  /\ registry = ActiveLanes
  /\ bids = [c \in Clients |-> Copy(c, store)]
  /\ reading = [v \in Vendors |-> Idle]
  /\ submitting = [v \in Vendors |-> Idle]
  /\ now = 0
  /\ users = NoUsers
  /\ lastCall = Call("none", TRUE)

\* handleCreateSubmit -> App.createBid -> createShipmentBid, then the
\* notification of every vendor of MOCK_USERS whose lanes include bidData.lane
onCreateBid(pickupCity, deliveryCity) ==
  LET bidData == createBid(handleCreateSubmit(pickupCity, <<>>, deliveryCity, <<>>))
  IN  /\ store' = CreatedBid
      /\ lane' = bidData.lane
      /\ probe' = [pickupCity |-> bidData.pickupCity,
                   deliveryCity |-> bidData.deliveryCity,
                   notified |-> {v \in Vendors : bidData.lane \in VendorLanes(v)}]
      /\ lastCall' = Call("createBid", TRUE)
      /\ Echo(Admin, TRUE)
      /\ UNCHANGED <<reading, submitting, now, registry, users>>

NextNotify ==
  \/ \E p \in FormCities, d \in FormCities : onCreateBid(p, d)
  \/ \E i \in 1..MaxLanes : deleteLane(i)

SpecNotify == InitNotify /\ [][NextNotify]_vars

\* the vendors eligible for a shipment: some active lane of the vendor's lane
\* set matches it
EligibleVendors(shipment) ==
  { v \in Vendors :
      \E i \in DOMAIN registry :
        /\ registry[i].name \in VendorLanes(v) \/ registry[i].id \in VendorLanes(v)
        /\ shipmentMatchesLane(shipment, registry[i]) }

\* C27: when a bid is created, the users notified of it are exactly the
\* vendors eligible for the new shipment.
C27_NotifiedAreEligible ==
  [][\A p \in FormCities, d \in FormCities :
       onCreateBid(p, d) => probe'.notified = EligibleVendors(probe')]_vars

\* ------------------------------------- the two eligibility queries
\* getMatchingVendors and filterShipmentsByVendorLanes on the same shipment,
\* vendors and array of lanes.
MaxQueryLanes == 2      \* lanes in the array
QueryLaneIds  == { <<>>, <<"L-1">>, <<"L-2">> }
QueryLanes ==
  { Lane(id, <<>>, o, d, a) :
      id \in QueryLaneIds,
      o \in {<<"Delhi">>, <<"Mumbai">>}, d \in {<<"Mumbai">>},
      a \in {"true", "false"} }

QueryCollections == UNION { [1..n -> QueryLanes] : n \in 0..MaxQueryLanes }

InitQuery ==
  /\ probe \in [shipment : { [pickupCity |-> <<"Delhi">>, deliveryCity |-> <<"Mumbai">>],
                             [pickupCity |-> <<"DELHI">>, deliveryCity |-> <<" ", "Mumbai">>] },
                vendors  : { << [id |-> "v-1", lanes |-> s1], [id |-> "v-2", lanes |-> s2] >> :
                               s1 \in SUBSET (QueryLaneIds \cup {<<"L-9">>}),
                               s2 \in { {}, {<<"L-1">>} } },
                lanes    : QueryCollections,
                result   : {"none"}]
  /\ registry = NoLanes
  /\ store = CreatedBid
  /\ bids = [c \in Clients |-> Copy(c, store)]
  /\ reading = [v \in Vendors |-> Idle]
  /\ submitting = [v \in Vendors |-> Idle]
  /\ now = 0
  /\ users = NoUsers
  /\ lastCall = Call("none", TRUE)
  /\ lane = SeededLane

\* both queries are run on the arguments
Query ==
  /\ probe.result = "none"
  /\ probe' =
       [shipment |-> probe.shipment, vendors |-> probe.vendors, lanes |-> probe.lanes,
        result   |-> "done",
        matching |-> getMatchingVendors(probe.shipment, probe.vendors, probe.lanes),
        kept     |-> { k \in DOMAIN probe.vendors :
                         filterShipmentsByVendorLanes(probe.shipment,
                                                      probe.vendors[k].lanes, probe.lanes) }]
  /\ UNCHANGED bidVars
  /\ UNCHANGED <<lane, registry, users>>

NextQuery == Query

SpecQuery == InitQuery /\ [][NextQuery]_vars

\* the lanes are as the database holds them, each under its key: the ids
\* are not empty and no two lanes have the same id
DistinctIds(lanes) ==
  /\ \A i \in DOMAIN lanes : lanes[i].id # <<>>
  /\ \A i \in DOMAIN lanes, j \in DOMAIN lanes : i # j => lanes[i].id # lanes[j].id

\* C28 as stated: for every shipment s, vendors and array of lanes L, a
\* vendor is among getMatchingVendors(s, vendors, L) exactly when
\* filterShipmentsByVendorLanes([s], v, L) keeps s.
C28_QueriesInverse ==
  probe.result = "done" => probe.matching = probe.kept

\* C28 for lanes with distinct, non-empty ids: a vendor is among
\* getMatchingVendors(s, vendors, L) exactly when
\* filterShipmentsByVendorLanes([s], v, L) keeps s.
C28_QueriesInverseOnDistinctIds ==
  (probe.result = "done" /\ DistinctIds(probe.lanes)) => probe.matching = probe.kept

C28_SomeKeptSomeNot ==
  /\ probe.result = "done"
  /\ DistinctIds(probe.lanes)
  /\ probe.matching = {1}
  /\ probe.vendors[2].lanes # {}
  /\ Len(probe.lanes) = MaxQueryLanes

\* ----------------------------------------------------------- laneExists
\* The value handed over as `lanes` is a record with the field typeof; when
\* it is an array, items holds its entries.
JsArray(items) == [typeof |-> "array", items |-> items]

\* isArray: Array.isArray(value)
isArray(value) == value.typeof = "array"

\* validateLaneOriginDestination(origin, destination)
validateLaneOriginDestination(origin, destination) ==
  IF normalizeCityName(origin) = <<>> \/ normalizeCityName(destination) = <<>>
    THEN FALSE
    ELSE normalizeCityName(origin) # normalizeCityName(destination)

\* laneExists with no lane skipped
laneExistsAmongAll(lanes, origin, destination, excludeId) ==
  /\ isArray(lanes)
  /\ validateLaneOriginDestination(origin, destination)
  /\ \E i \in DOMAIN lanes.items :
       /\ isObject(lanes.items[i])
       /\ normalizeCityName(lanes.items[i].origin) = normalizeCityName(origin)
       /\ normalizeCityName(lanes.items[i].destination) = normalizeCityName(destination)

\* laneExists(lanes, origin, destination, excludeId); excludeId is
\* JsUndefined when the argument is left out, and '' is falsy
laneExists(lanes, origin, destination, excludeId) ==
  IF ~isArray(lanes) THEN FALSE
  ELSE IF ~validateLaneOriginDestination(origin, destination) THEN FALSE
  ELSE \E i \in DOMAIN lanes.items :
         LET typedLane == lanes.items[i]
         IN  /\ isObject(typedLane)
             /\ ~(excludeId \notin {JsUndefined, <<>>} /\ typedLane.id = excludeId)
             /\ normalizeCityName(typedLane.origin) = normalizeCityName(origin)
             /\ normalizeCityName(typedLane.destination) = normalizeCityName(destination)

MaxExistLanes == 3      \* entries of the lanes array

\* null, {origin: 42}, {origin: 'Delhi', destination: 'Mumbai'}, and two
\* lane records
NullEntry      == [typeof |-> "null"]
MalformedEntry == Lane(JsUndefined, JsUndefined, <<"typeof number">>, JsUndefined, "undefined")
BareEntry      == Lane(JsUndefined, JsUndefined, <<"Delhi">>, <<"Mumbai">>, "undefined")
ExistEntries ==
  { NullEntry, MalformedEntry, BareEntry,
    Lane(<<"L-1">>, <<>>, <<"DELHI">>, <<"MUMBAI">>, "true"),
    Lane(<<"L-2">>, <<>>, <<"Mumbai">>, <<"Delhi">>, "false") }

ExistCities ==
  { JsNull, <<>>, <<Space>>, <<"Delhi">>, <<Space, "DELHI">>, <<"Mumbai">> }

InitExists ==
  /\ probe \in [lanes       : { JsArray(items) :
                                  items \in UNION { [1..n -> ExistEntries] :
                                                      n \in 0..MaxExistLanes } }
                                \cup { [typeof |-> "null"], [typeof |-> "string"] },
                origin      : ExistCities,
                destination : ExistCities,
                excludeId   : { JsUndefined, <<>>, <<"L-1">> },
                result      : {"none"}]
  /\ registry = NoLanes
  /\ store = CreatedBid
  /\ bids = [c \in Clients |-> Copy(c, store)]
  /\ reading = [v \in Vendors |-> Idle]
  /\ submitting = [v \in Vendors |-> Idle]
  /\ now = 0
  /\ users = NoUsers
  /\ lastCall = Call("none", TRUE)
  /\ lane = SeededLane

\* a call of laneExists(lanes, origin, destination, excludeId)
Exists ==
  /\ probe.result = "none"
  /\ probe' = [probe EXCEPT !.result =
       IF laneExists(probe.lanes, probe.origin, probe.destination, probe.excludeId)
         THEN "true" ELSE "false"]
  /\ UNCHANGED bidVars
  /\ UNCHANGED <<lane, registry, users>>

NextExists == Exists

SpecExists == InitExists /\ [][NextExists]_vars

MaxTextLen == 3     \* longest text, in characters
TextChars  == {"a", "A", Space, Tab}
Texts      == UNION { [1..k -> TextChars] : k \in 0..MaxTextLen }

InitNormalize ==
  /\ probe \in [input : Texts \cup NonText, stage : {"none"}, once : {<<>>}, twice : {<<>>}]
  /\ registry = NoLanes
  /\ store = CreatedBid
  /\ bids = [c \in Clients |-> Copy(c, store)]
  /\ reading = [v \in Vendors |-> Idle]
  /\ submitting = [v \in Vendors |-> Idle]
  /\ now = 0
  /\ users = NoUsers
  /\ lastCall = Call("none", TRUE)
  /\ lane = SeededLane

\* normalizeCityName(input)
Normalize ==
  /\ probe.stage = "none"
  /\ probe' = [probe EXCEPT !.stage = "once", !.once = normalizeCityName(probe.input)]
  /\ UNCHANGED bidVars
  /\ UNCHANGED <<lane, registry, users>>

\* normalizeCityName of the result
NormalizeAgain ==
  /\ probe.stage = "once"
  /\ probe' = [probe EXCEPT !.stage = "twice", !.twice = normalizeCityName(probe.once)]
  /\ UNCHANGED bidVars
  /\ UNCHANGED <<lane, registry, users>>

NextNormalize == Normalize \/ NormalizeAgain

SpecNormalize == InitNormalize /\ [][NextNormalize]_vars

\* the characters of a text that are no white space, in upper case
UpperOfInk(text) ==
  LET ink == SelectSeq(text, LAMBDA c : c \notin WhiteSpace)
  IN  [i \in DOMAIN ink |-> toUpperCaseChar(ink[i])]

\* C30: normalizeCityName of a text is the text trimmed, in upper case and
\* without any white space; of a value that is no text, and of an empty or
\* blank text, it is the empty string; and normalizing the result again
\* changes nothing.
C30_NormalizeIdempotent ==
  /\ probe.stage \in {"once", "twice"} =>
       /\ \A i \in DOMAIN probe.once : probe.once[i] \notin WhiteSpace
       /\ probe.input \in NonText => probe.once = <<>>
       /\ probe.input \notin NonText => probe.once = UpperOfInk(probe.input)
       /\ ( /\ probe.input \notin NonText
            /\ \A i \in DOMAIN probe.input : probe.input[i] \in WhiteSpace ) =>
            probe.once = <<>>
  /\ probe.stage = "twice" => probe.twice = probe.once

C30_InnerSpaceRemoved ==
  /\ probe.stage = "twice"
  /\ probe.input = <<"a", Tab, "a">>
  /\ probe.twice = <<"A", "A">>

\* ------------------------------------------------------ vendor records
\* The vendor records of the database, FirebaseService's vendor operations
\* (run from a script or another session), and a dashboard that holds the
\* vendors last delivered to it (useVendors) and asks for the vendors
\* matching a shipment.
MaxUsers == 3     \* user records ever under users/

\* a user record; isDeleted is "true" or "undefined" (a record without the
\* field), and a field the record lacks is "undefined"
User(id, role, lanes, isDeleted) ==
  [id |-> id, role |-> role, lanes |-> lanes, isDeleted |-> isDeleted]

\* the vendors v-1 and v-2 as records of the database, their lanes by id
StoredVendors ==
  << User("v-1", "VENDOR", {<<"L-1">>}, "undefined"),
     User("v-2", "VENDOR", {<<"L-1">>, <<"L-3">>}, "undefined") >>

\* the filter of getVendors and listenToVendors:
\* user.role === 'VENDOR' && !user.isDeleted
listenToVendors(records) ==
  SelectSeq(records, LAMBDA user : user.role = "VENDOR" /\ user.isDeleted # "true")

VendorShipments ==
  { [pickupCity |-> <<"Delhi">>, deliveryCity |-> <<"Mumbai">>],
    [pickupCity |-> <<"Bangalore">>, deliveryCity |-> <<"Chennai">>] }

InitVendors ==
  /\ users = StoredVendors
  /\ registry = ActiveLanes
  /\ probe = [vendors  |-> listenToVendors(users),
              shipment |-> CHOOSE sh \in VendorShipments : sh.pickupCity = <<"Delhi">>,
              matching |-> {}]
  /\ store = [CreatedBid EXCEPT !.offers = <<BidOffer("v-1", 1, 0), BidOffer("v-2", 2, 0)>>]
  /\ bids = [c \in Clients |-> Copy(c, store)]
  /\ reading = [v \in Vendors |-> Idle]
  /\ submitting = [v \in Vendors |-> Idle]
  /\ now = 0
  /\ lastCall = Call("none", TRUE)
  /\ lane = SeededLane

\* FirebaseService.updateVendor(vendorId, {lanes})
updateVendor(i, updates) ==
  /\ i \in DOMAIN users
  /\ users' = [users EXCEPT ![i] = Merge(users[i], updates)]
  /\ UNCHANGED bidVars
  /\ UNCHANGED <<lane, registry, probe>>

\* FirebaseService.deleteVendor(vendorId): soft delete.  update() writes the
\* isDeleted field under users/<vendorId> whether or not a record is there
\* (the first free key stands for a key that holds no user).
deleteVendor(i) ==
  /\ i \in 1..(Len(users) + 1)
  /\ i \in DOMAIN users \/ Len(users) < MaxUsers
  /\ users' =
       IF i \in DOMAIN users
         THEN [users EXCEPT ![i] = Merge(users[i], [isDeleted |-> "true"])]
         ELSE Append(users, User("undefined", "undefined", {}, "true"))
  /\ UNCHANGED bidVars
  /\ UNCHANGED <<lane, registry, probe>>

\* useVendors: the onValue callback of listenToVendors sets the dashboard's
\* vendors
DeliverVendors ==
  /\ probe' = [probe EXCEPT !.vendors = listenToVendors(users)]
  /\ UNCHANGED bidVars
  /\ UNCHANGED <<lane, registry, users>>

\* the dashboard asks for the vendors matching a shipment:
\* getMatchingVendors(shipment, vendors, lanes); the ids of those returned
MatchVendors(shipment) ==
  /\ probe' = [probe EXCEPT
       !.shipment = shipment,
       !.matching = { probe.vendors[k].id :
                        k \in getMatchingVendors(shipment, probe.vendors, registry) }]
  /\ UNCHANGED bidVars
  /\ UNCHANGED <<lane, registry, users>>

NextVendors ==
  \/ \E i \in 1..MaxUsers, l \in { {}, {<<"L-1">>}, {<<"L-3">>} } :
       updateVendor(i, [lanes |-> l])
  \/ \E i \in 1..MaxUsers : deleteVendor(i)
  \/ DeliverVendors
  \/ \E sh \in VendorShipments : MatchVendors(sh)
  \/ \E a \in Amounts : handleCounterOffer(a)

SpecVendors == InitVendors /\ [][NextVendors]_vars

\* the user record of that id is soft-deleted
Deactivated(id) == \E i \in DOMAIN users : users[i].id = id /\ users[i].isDeleted = "true"

\* C31: once a vendor is soft-deleted, no listing delivers the vendor and no
\* query for the vendors matching a shipment returns the vendor; the delete
\* itself leaves the bid, with its offers and winningVendorId, as it was.
C31_DeactivatedVendorGone ==
  [][/\ \A i \in 1..MaxUsers : deleteVendor(i) => store' = store
     /\ DeliverVendors =>
          \A k \in DOMAIN probe'.vendors : ~Deactivated(probe'.vendors[k].id)
     /\ (\E sh \in VendorShipments : MatchVendors(sh)) =>
          \A id \in probe'.matching : ~Deactivated(id)]_vars

\* -------------------------------------------------- the Create Bid form
\* The admin edits the auction fields of the form (newBid) and submits it:
\* handleCreateSubmit -> App.createBid -> createShipmentBid.  probe.bid
\* holds the auction terms of the record createShipmentBid has stored.
\* A date is a day number, a time of day one of three moments; the form
\* opens with bidStartDate and bidEndDate today, bidStartTime 16:10 and
\* bidEndTime 18:00, and has no input for the start or for reservedPrice.
Today     == 1
Days      == 0..2
Times     == {"09:00", "16:10", "18:00"}

\* new Date(`${date}T${time}`): the instants in their order
TimeOfDay(time) == CASE time = "09:00" -> 0 [] time = "16:10" -> 1 [] time = "18:00" -> 2

DateTime(date, time) == 3 * date + TimeOfDay(time)

\* what a number input holds
NumberTexts == { <<>>, <<"0">>, <<"1">>, <<"2">>, <<Hyphen, "1">> }

\* `parseInt(e.target.value) || 0`: 0 for NaN and for 0
parseIntOrZero(text) ==
  IF parseInt(text).isNaN \/ parseInt(text).value = 0 THEN 0 ELSE parseInt(text).value

\* `n || 0` on a number
OrZero(n) == IF n = 0 THEN 0 ELSE n

\* useState<Partial<ShipmentBid>> newBid: the auction fields
newBid ==
  [reservedPrice |-> 0, ceilingRate |-> 0, stepValue |-> 0,
   bidStartDate |-> Today, bidStartTime |-> "16:10",
   bidEndDate |-> Today, bidEndTime |-> "18:00"]

NoBid == [stored |-> FALSE]

InitCreate ==
  /\ probe = [newBid |-> newBid, bid |-> NoBid]
  /\ store \in {[CreatedBid EXCEPT !.offers = o] : o \in SeededOffers}
  /\ lane = SeededLane
  /\ registry = NoLanes
  /\ bids = [c \in Clients |-> Copy(c, store)]
  /\ reading = [v \in Vendors |-> Idle]
  /\ submitting = [v \in Vendors |-> Idle]
  /\ now = 0
  /\ users = NoUsers
  /\ lastCall = Call("none", TRUE)

\* onChange of an input of the form: setNewBid({...newBid, field: value})
setNewBid(updates) ==
  /\ probe' = [probe EXCEPT !.newBid = Merge(probe.newBid, updates)]
  /\ UNCHANGED bidVars
  /\ UNCHANGED <<lane, registry, users>>

\* App.createBid: the auction terms handed to createShipmentBid
createBidTerms(newBidData) ==
  [stored        |-> TRUE,
   reservedPrice |-> OrZero(newBidData.reservedPrice),
   ceilingRate   |-> OrZero(newBidData.ceilingRate),
   stepValue     |-> OrZero(newBidData.stepValue),
   bidStartDate  |-> newBidData.bidStartDate,
   bidStartTime  |-> newBidData.bidStartTime,
   bidEndDate    |-> newBidData.bidEndDate,
   bidEndTime    |-> newBidData.bidEndTime]

\* Create Bid: handleCreateSubmit -> createBid -> createShipmentBid stores
\* the record with status OPEN; no step of the three checks a field
CreateSubmit ==
  /\ store' = CreatedBid
  /\ lane' = createBid(handleCreateSubmit(<<"Delhi">>, <<>>, <<"Mumbai">>, <<>>)).lane
  /\ probe' = [probe EXCEPT !.bid = createBidTerms(probe.newBid)]
  /\ lastCall' = Call("createBid", TRUE)
  /\ Echo(Admin, TRUE)
  /\ UNCHANGED <<reading, submitting, now, registry, users>>

NextCreate ==
  \/ \E t \in NumberTexts : setNewBid([ceilingRate |-> parseIntOrZero(t)])
  \/ \E t \in NumberTexts : setNewBid([stepValue |-> parseIntOrZero(t)])
  \/ \E d \in Days : setNewBid([bidEndDate |-> d])
  \/ \E t \in Times : setNewBid([bidEndTime |-> t])
  \/ CreateSubmit

SpecCreate == InitCreate /\ [][NextCreate]_vars

\* C32: every bid stored by createShipmentBid starts strictly before it
\* ends and has non-negative reservedPrice, ceilingRate and stepValue (a
\* request that does not is not stored).
C32_CreatedBidWellFormed ==
  probe.bid # NoBid =>
    /\ DateTime(probe.bid.bidStartDate, probe.bid.bidStartTime)
         < DateTime(probe.bid.bidEndDate, probe.bid.bidEndTime)
    /\ probe.bid.reservedPrice >= 0
    /\ probe.bid.ceilingRate >= 0
    /\ probe.bid.stepValue >= 0

\* ----------------------------------------------------- generateLaneCode
\* generateLaneCode on any two values.
MaxCodeLen == 4     \* longest city name, in characters
CodeChars  == {"a", "B", Space}
CodeTexts  == UNION { [1..k -> CodeChars] : k \in 0..MaxCodeLen }

\* the calls of the test suite: ('Mumbai', 'Pune') and ('NYC', 'LA')
CodeExamples ==
  { [origin |-> <<"M", "u", "m", "b", "a", "i">>, destination |-> <<"P", "u", "n", "e">>],
    [origin |-> <<"N", "Y", "C">>, destination |-> <<"L", "A">>] }

\* String.prototype.substring(0, end)
substring(s, end) == SubSeq(s, 1, IF Len(s) < end THEN Len(s) ELSE end)

\* generateLaneCode without the cut to three characters
generateLaneCodeUncut(origin, destination) ==
  IF normalizeCityName(origin) = <<>> \/ normalizeCityName(destination) = <<>>
    THEN <<>>
    ELSE normalizeCityName(origin) \o <<Hyphen>> \o normalizeCityName(destination)

\* generateLaneCode(origin, destination)
generateLaneCode(origin, destination) ==
  LET normalizedOrigin      == normalizeCityName(origin)
      normalizedDestination == normalizeCityName(destination)
  IN  IF normalizedOrigin = <<>> \/ normalizedDestination = <<>>
        THEN <<>>
        ELSE substring(normalizedOrigin, 3) \o <<Hyphen>>
               \o substring(normalizedDestination, 3)

InitCode ==
  /\ probe \in { [origin |-> o, destination |-> d, result |-> <<"none">>] :
                   o \in CodeTexts \cup NonText, d \in CodeTexts \cup NonText }
             \cup { [origin |-> e.origin, destination |-> e.destination,
                     result |-> <<"none">>] : e \in CodeExamples }
  /\ registry = NoLanes
  /\ store = CreatedBid
  /\ bids = [c \in Clients |-> Copy(c, store)]
  /\ reading = [v \in Vendors |-> Idle]
  /\ submitting = [v \in Vendors |-> Idle]
  /\ now = 0
  /\ users = NoUsers
  /\ lastCall = Call("none", TRUE)
  /\ lane = SeededLane

\* a call of generateLaneCode(origin, destination)
Code ==
  /\ probe.result = <<"none">>
  /\ probe' = [probe EXCEPT !.result = generateLaneCode(probe.origin, probe.destination)]
  /\ UNCHANGED bidVars
  /\ UNCHANGED <<lane, registry, users>>

NextCode == Code

SpecCode == InitCode /\ [][NextCode]_vars

\* the first three characters of a text, or all of it when it has fewer
FirstThree(text) == [i \in 1..(IF Len(text) < 3 THEN Len(text) ELSE 3) |-> text[i]]

\* the value is a text with a character that is no white space
HasInk(value) ==
  /\ value \notin NonText
  /\ \E i \in DOMAIN value : value[i] \notin WhiteSpace

\* C33: generateLaneCode(origin, destination) is the first three characters
\* of the normalized origin, a hyphen, and the first three characters of the
\* normalized destination (the whole normalized name when it has fewer than
\* three); it is the empty string when either value is not text or
\* normalizes to the empty string.
C33_LaneCode ==
  probe.result # <<"none">> =>
    probe.result =
      IF HasInk(probe.origin) /\ HasInk(probe.destination)
        THEN FirstThree(UpperOfInk(probe.origin)) \o <<Hyphen>>
               \o FirstThree(UpperOfInk(probe.destination))
        ELSE <<>>

C33_MumbaiPune ==
  /\ probe.origin = <<"M", "u", "m", "b", "a", "i">>
  /\ probe.destination = <<"P", "u", "n", "e">>
  /\ probe.result = <<"M", "U", "M", Hyphen, "P", "U", "N">>

\* ------------------------------------------- vendors without lanes
\* The two eligibility queries for vendors whose `lanes` is an array, empty
\* or not, or is missing (undefined, null).  vendor.lanes is a record with
\* the field typeof; when it is an array, items holds the lane ids.
VendorLaneValues ==
  { [typeof |-> "undefined"], [typeof |-> "null"], JsArray({}),
    JsArray({<<"L-1">>}), JsArray({<<"L-1">>, <<"L-2">>}) }

\* `!isArray(vendor.lanes) || vendor.lanes.length === 0` returns at once:
\* the lane ids the queries go through
laneIdsOf(vendor) == IF isArray(vendor.lanes) THEN vendor.lanes.items ELSE {}

InitGate ==
  /\ probe \in [shipment : { [pickupCity |-> <<"Delhi">>, deliveryCity |-> <<"Mumbai">>],
                             [pickupCity |-> <<"Mumbai">>, deliveryCity |-> <<"Mumbai">>] },
                vendors  : { << [id |-> "v-1", lanes |-> l1], [id |-> "v-2", lanes |-> l2] >> :
                               l1 \in VendorLaneValues, l2 \in VendorLaneValues },
                lanes    : QueryCollections,
                result   : {"none"}]
  /\ registry = NoLanes
  /\ store = CreatedBid
  /\ bids = [c \in Clients |-> Copy(c, store)]
  /\ reading = [v \in Vendors |-> Idle]
  /\ submitting = [v \in Vendors |-> Idle]
  /\ now = 0
  /\ users = NoUsers
  /\ lastCall = Call("none", TRUE)
  /\ lane = SeededLane

\* getMatchingVendors(shipment, vendors, lanes), and
\* filterShipmentsByVendorLanes([shipment], vendor, lanes) for each vendor
Gate ==
  /\ probe.result = "none"
  /\ LET vendors == [k \in DOMAIN probe.vendors |->
                       [id |-> probe.vendors[k].id, lanes |-> laneIdsOf(probe.vendors[k])]]
     IN  probe' =
           [shipment |-> probe.shipment, vendors |-> probe.vendors, lanes |-> probe.lanes,
            result   |-> "done",
            matching |-> getMatchingVendors(probe.shipment, vendors, probe.lanes),
            kept     |-> { k \in DOMAIN vendors :
                             filterShipmentsByVendorLanes(probe.shipment,
                                                          vendors[k].lanes, probe.lanes) }]
  /\ UNCHANGED bidVars
  /\ UNCHANGED <<lane, registry, users>>

NextGate == Gate

SpecGate == InitGate /\ [][NextGate]_vars

\* the vendor has no lane: lanes is missing or is an empty array
WithoutLanes(vendor) == vendor.lanes.typeof # "array" \/ vendor.lanes.items = {}

\* C34: a vendor whose lane set is empty or missing is returned by
\* getMatchingVendors for no shipment and no collection of lanes, and
\* filterShipmentsByVendorLanes keeps no shipment for that vendor.
C34_NoLanesNoMatch ==
  probe.result = "done" =>
    \A k \in DOMAIN probe.vendors :
      WithoutLanes(probe.vendors[k]) => (k \notin probe.matching /\ k \notin probe.kept)

C34_OnlyTheVendorWithLanes ==
  /\ probe.result = "done"
  /\ probe.vendors[1].lanes = [typeof |-> "undefined"]
  /\ probe.vendors[2].lanes = JsArray({<<"L-1">>})
  /\ probe.matching = {2}
  /\ probe.kept = {2}

\* ------------------------------------------- the lane integrity check
\* The lane records of the database under FirebaseService's lane operations
\* and the script check-lanes-data.js, with the vendors' records and the bid
\* beside them.
InitCleanup ==
  /\ registry = ActiveLanes
  /\ users = StoredVendors
  /\ store \in {[CreatedBid EXCEPT !.offers = o] : o \in SeededOffers}
  /\ bids = [c \in Clients |-> Copy(c, store)]
  /\ reading = [v \in Vendors |-> Idle]
  /\ submitting = [v \in Vendors |-> Idle]
  /\ now = 0
  /\ lastCall = Call("none", TRUE)
  /\ lane = SeededLane
  /\ probe = NoProbe

\* hasOrigin, hasDestination, hasName of checkLanes:
\* value && typeof value === 'string' && value.trim() !== ''
hasText(value) == isString(value) /\ value # <<>> /\ trim(value) # <<>>

\* checkLanes(): every lane record without an origin, a destination or a
\* name is removed from the database (remove(ref(database, lanes/<id>)))
checkLanes ==
  /\ registry' = SelectSeq(registry,
       LAMBDA l : hasText(l.origin) /\ hasText(l.destination) /\ hasText(l.name))
  /\ UNCHANGED bidVars
  /\ UNCHANGED <<lane, probe, users>>

NextCleanup ==
  \/ \E i \in 1..MaxLanes, o \in LaneCities, d \in LaneCities :
       updateLane(i, [origin |-> o, destination |-> d])
  \/ \E i \in 1..MaxLanes : deleteLane(i)
  \/ checkLanes

SpecCleanup == InitCleanup /\ [][NextCleanup]_vars

\* C35: no operation removes a lane record from the database, and
\* deleteLane of a lane only sets its isActive to false: the lane's id,
\* origin and destination, every vendor's lanes and the bid stay as they
\* were.
C35_NoHardDelete ==
  [][/\ Len(registry') >= Len(registry)
     /\ \A i \in DOMAIN registry :
          i \in DOMAIN registry' => registry'[i].id = registry[i].id
     /\ \A i \in DOMAIN registry :
          deleteLane(i) =>
            /\ registry' = [registry EXCEPT ![i].isActive = "false"]
            /\ users' = users
            /\ store' = store]_vars

\* --------------------------------------- offers during a negotiation
\* A bid that holds one offer, of v-1 at the highest amount: the admin
\* counters and the vendor responds while vendors place offers.
InitCounter ==
  /\ store = [CreatedBid EXCEPT !.offers = <<BidOffer("v-1", MaxAmount, 0)>>]
  /\ bids = [c \in Clients |-> Copy(c, store)]
  /\ reading = [v \in Vendors |-> Idle]
  /\ submitting = [v \in Vendors |-> Idle]
  /\ now = 0
  /\ users = NoUsers
  /\ lastCall = Call("none", TRUE)
  /\ lane = SeededLane
  /\ registry = NoLanes
  /\ probe = NoProbe

NextCounter ==
  \/ \E c \in Clients : Deliver(c)
  \/ \E v \in Vendors, a \in Amounts : PlaceOffer(v, a)
  \/ \E v \in Vendors : PlaceOfferUpdate(v)
  \/ \E a \in Amounts : handleCounterOffer(a)
  \/ \E v \in Vendors, accept \in BOOLEAN : respondToCounter(v, accept)

SpecCounter == InitCounter /\ [][NextCounter]_vars

\* C36: while the stored status is NEGOTIATING, winningVendorId is the
\* vendor of a lowest stored offer of the bid, whatever placeOffer calls
\* interleave with the admin's counter and however old the admin's view is.
C36_WinnerIsLowestOffer ==
  store.status = "NEGOTIATING" =>
    \E i \in DOMAIN store.offers :
      /\ store.offers[i].vendorId = store.winningVendorId
      /\ \A j \in DOMAIN store.offers : store.offers[i].amount <= store.offers[j].amount

\* -------------------------------------------------------- notifications
\* addNotification: the titles an operation of App.tsx has sent when it
\* completes as `call`.  placeOffer notifies under `if (result.success)`;
\* handleCounterOffer, respondToCounter and submitVehicleDetails call
\* addNotification after `await updateBidStatus(...)`, which returns nothing.
addNotification(call) ==
  CASE call.op = "placeOffer" ->
         IF call.ok THEN {"New Bid Submitted"} ELSE {}
    [] call.op = "adminCounters" -> {"Counter Offer Received"}
    [] call.op = "accept" -> {"Counter Offer Accepted", "Bid Finalized"}
    [] call.op = "reject" -> {"Counter Offer Rejected"}
    [] call.op = "submitVehicleDetails" -> {"Vehicle Assigned"}
    [] OTHER -> {}

\* C37: an operation sends a notification of a transition only if its write
\* to the store succeeded; when the write fails it sends none and the
\* stored bid is as it was.
C37_NotifiedOnlyOnSuccess ==
  [][lastCall' # lastCall =>
       /\ addNotification(lastCall') # {} => lastCall'.ok
       /\ ~lastCall'.ok => store' = store]_vars

Ascending(offers) ==
  \A i \in DOMAIN offers, j \in DOMAIN offers :
    i < j => offers[i].amount <= offers[j].amount

\* the first stored offer is the one of vendor-side rank 1
FirstIsRankOne(offers) ==
  offers # <<>> =>
    \A v \in Vendors : myRank(offers, v) = 1 <=> offers[1].vendorId = v

\* C39: the stored offers are always ascending by amount, an offer that
\* reaches the store is put after the offers of the same amount that are in
\* the list (the others keep their order), and the first stored offer is
\* the offer of the vendor whose rank is 1.
C39_StoredOffersOrdered ==
  /\ Ascending(store.offers) /\ FirstIsRankOne(store.offers)
  /\ [][/\ Ascending(store'.offers)
        /\ FirstIsRankOne(store'.offers)
        /\ store'.offers # store.offers =>
             \E v \in Vendors :
               /\ reading[v].busy
               /\ ~reading'[v].busy
               /\ \E i \in DOMAIN store'.offers :
                    /\ store'.offers[i] = reading[v].offer
                    /\ RemoveAt(store'.offers, i) = reading[v].bid.offers
                    /\ \A j \in DOMAIN store'.offers :
                         j > i => store'.offers[j].amount > reading[v].offer.amount]_vars

C39_TieKeptInOrder ==
  /\ Len(store.offers) = 3
  /\ store.offers[1].amount < store.offers[2].amount
  /\ store.offers[2] = BidOffer("v-1", MaxAmount, 0)
  /\ store.offers[3].amount = MaxAmount
  /\ store.offers[3].vendorId = "v-2"
  /\ lastCall = Call("placeOffer", TRUE)

\* ------------------------------------------------------ the lane listing
\* The lanes delivered to a dashboard by listenToLanes (useLanes), while
\* lanes are deactivated and activated again.  probe.lanes is the
\* dashboard's `lanes`.
\* the place of a character in the collation order of localeCompare
LocaleRank(c) ==
  CASE c = "Bangalore" -> 1 [] c = "Chennai" -> 2 [] c = "Delhi" -> 3
    [] c = "Mumbai" -> 4 [] OTHER -> 0

RECURSIVE localeCompare(_, _)
\* a.localeCompare(b): negative, zero or positive
localeCompare(a, b) ==
  IF a = <<>> /\ b = <<>> THEN 0
  ELSE IF a = <<>> THEN 0 - 1
  ELSE IF b = <<>> THEN 1
  ELSE IF LocaleRank(Head(a)) # LocaleRank(Head(b))
    THEN LocaleRank(Head(a)) - LocaleRank(Head(b))
  ELSE localeCompare(Tail(a), Tail(b))

RECURSIVE InsertByRoute(_, _)
InsertByRoute(s, l) ==
  IF s = <<>> THEN <<l>>
  ELSE IF localeCompare(Head(s).origin \o Head(s).destination,
                        l.origin \o l.destination) > 0
    THEN <<l>> \o s
  ELSE <<Head(s)>> \o InsertByRoute(Tail(s), l)

RECURSIVE SortByRoute(_)
\* .sort((a, b) => (a.origin + a.destination).localeCompare(b.origin + b.destination))
SortByRoute(s) ==
  IF s = <<>> THEN <<>>
  ELSE InsertByRoute(SortByRoute(SubSeq(s, 1, Len(s) - 1)), s[Len(s)])

\* getLanes / listenToLanes: the lanes with `isActive !== false`, sorted
listenToLanes(records) ==
  SortByRoute(SelectSeq(records, LAMBDA l : l.isActive # "false"))

InitListing ==
  /\ registry \in {INITIAL_LANES, ActiveLanes}
  /\ probe = [lanes |-> <<>>]
  /\ users = NoUsers
  /\ store = CreatedBid
  /\ bids = [c \in Clients |-> Copy(c, store)]
  /\ reading = [v \in Vendors |-> Idle]
  /\ submitting = [v \in Vendors |-> Idle]
  /\ now = 0
  /\ lastCall = Call("none", TRUE)
  /\ lane = SeededLane

\* useLanes: the onValue callback of listenToLanes sets the dashboard's lanes
DeliverLanes ==
  /\ probe' = [probe EXCEPT !.lanes = listenToLanes(registry)]
  /\ UNCHANGED bidVars
  /\ UNCHANGED <<lane, registry, users>>

NextListing ==
  \/ \E i \in 1..MaxLanes : deleteLane(i)
  \/ \E i \in 1..MaxLanes : updateLane(i, [isActive |-> "true"])
  \/ \E i \in 1..MaxLanes, o \in {<<"Delhi">>, <<"Mumbai">>} :
       updateLane(i, [origin |-> o, destination |-> <<"Chennai">>])
  \/ DeliverLanes

SpecListing == InitListing /\ [][NextListing]_vars

\* C40: every lane the listing delivers as active matches, by
\* shipmentMatchesLane, a shipment whose cities are the lane's origin and
\* destination; a lane stored without isActive is among them.
C40_ListedLanesMatch ==
  \A k \in DOMAIN probe.lanes :
    shipmentMatchesLane([pickupCity   |-> probe.lanes[k].origin,
                         deliveryCity |-> probe.lanes[k].destination],
                        probe.lanes[k])
====
